---- MODULE Spec2Model ----
(***************************************************************************)
(* A model of src/app.py: a Streamlit chat front-end that gates access     *)
(* with a shared secret and relays user messages to a Bedrock agent.       *)
(*                                                                         *)
(* Streamlit re-executes the whole script on every user interaction; the   *)
(* only state that survives a rerun is st.session_state.  Each action of   *)
(* Spec is one script run, started by one widget event.  SpecGateway       *)
(* exercises get_bedrock_response alone over a bounded set of replies.     *)
(*                                                                         *)
(* Text is a sequence of Unicode code points, bytes are a sequence of      *)
(* integers 0..255.                                                        *)
(***************************************************************************)
EXTENDS Integers, Sequences, FiniteSets, TLC

\* ------------------------------------------------------------------ bounds
\* longest payload of one chunk event, in units (see PayloadUnits)
MaxUnits == 1
\* longest completion stream
MaxEvents == 3
\* script runs that reach line 100 (each draws a uuid)
MaxRuns == 3

\* ----------------------------------------------------------- Python values
None == [t |-> "None", v |-> <<>>]
Str(s) == [t |-> "str", v |-> s]
\* truthiness of an Optional[str]: None and "" are falsy
Truthy(x) == x.t = "str" /\ x.v # <<>>

\* str.isspace() for the code points below U+0800
IsSpace(cp) == cp \in (9..13) \cup (28..32) \cup {133, 160}

RECURSIVE LStrip(_)
LStrip(s) == IF s # <<>> /\ IsSpace(Head(s)) THEN LStrip(Tail(s)) ELSE s

RECURSIVE RStrip(_)
RStrip(s) ==
    IF s # <<>> /\ IsSpace(s[Len(s)]) THEN RStrip(SubSeq(s, 1, Len(s) - 1)) ELSE s

\* str.strip()
Strip(s) == RStrip(LStrip(s))

\* ------------------------------------------------------------ UTF-8 decode
DecodeError == [ok |-> FALSE, text |-> <<>>]
IsCont(b) == b \in 128..191

\* bytes.decode('utf-8'), strict: the decoded text, or a UnicodeDecodeError
RECURSIVE Utf8Decode(_)
Utf8Decode(b) ==
    IF b = <<>> THEN [ok |-> TRUE, text |-> <<>>]
    ELSE LET b1 == b[1]
             n == IF b1 < 128 THEN 1
                  ELSE IF b1 \in 194..223 THEN 2
                  ELSE IF b1 \in 224..239 THEN 3
                  ELSE IF b1 \in 240..244 THEN 4
                  ELSE 0
             wellFormed ==
                 /\ n > 0
                 /\ Len(b) >= n
                 /\ \A i \in 2..n : IsCont(b[i])
                 /\ (b1 = 224 => b[2] >= 160)
                 /\ (b1 = 237 => b[2] <= 159)
                 /\ (b1 = 240 => b[2] >= 144)
                 /\ (b1 = 244 => b[2] <= 143)
             cp == IF n = 1 THEN b1
                   ELSE IF n = 2 THEN (b1 - 192) * 64 + (b[2] - 128)
                   ELSE IF n = 3
                        THEN (b1 - 224) * 4096 + (b[2] - 128) * 64 + (b[3] - 128)
                   ELSE (b1 - 240) * 262144 + (b[2] - 128) * 4096
                        + (b[3] - 128) * 64 + (b[4] - 128)
         IN IF ~wellFormed THEN DecodeError
            ELSE LET rest == Utf8Decode(SubSeq(b, n + 1, Len(b)))
                 IN IF rest.ok THEN [ok |-> TRUE, text |-> <<cp>> \o rest.text]
                    ELSE DecodeError

\* ------------------------------------------------------- stream events
\* An event of response['completion'].  shape tells how far the event matches
\* {chunk: {bytes: <binary>}}:
\*   "notdict"   the event is no dict
\*   "nochunk"   a dict without the key 'chunk'         (e.g. {unrelated: 1})
\*   "chunkval"  event['chunk'] is no dict
\*   "nobytes"   event['chunk'] is a dict without 'bytes'
\*   "bytesval"  event['chunk']['bytes'] is no bytes object
\*   "bytes"     event['chunk']['bytes'] is the bytes object in field bytes
Event(shape, bytes) == [shape |-> shape, bytes |-> bytes]
ChunkEvent(bytes) == Event("bytes", bytes)
OtherShapes == {"notdict", "nochunk", "chunkval", "nobytes", "bytesval"}

\* A payload is made of units: ' ', U+00E9 in its two bytes, and each of
\* these two bytes alone (a lead byte and a continuation byte, both invalid
\* on their own).
PayloadUnits == {<<32>>, <<195, 169>>, <<195>>, <<169>>}
ByteAlphabet == {32, 195, 169}

\* the sequences over S of length at most n
SeqsUpTo(S, n) == UNION {[1..k -> S] : k \in 0..n}

RECURSIVE Flatten(_)
Flatten(ss) == IF ss = <<>> THEN <<>> ELSE Head(ss) \o Flatten(Tail(ss))

ByteStrings == {Flatten(u) : u \in SeqsUpTo(PayloadUnits, MaxUnits)}
Events == {ChunkEvent(b) : b \in ByteStrings} \cup {Event(s, <<>>) : s \in OtherShapes}

\* ------------------------------------------------------- exceptions, replies
\* botocore ClientError carries response['Error']['Code'] and ['Message']
ClientError(code, message) == [cls |-> "ClientError", code |-> code, message |-> message]
\* any other Exception; message is str(e)
OtherError(message) == [cls |-> "Exception", code |-> "", message |-> message]
NoError == [cls |-> "none", code |-> "", message |-> ""]

Errors ==
    { ClientError("ThrottlingException", "Rate exceeded"),
      OtherError("Unable to locate credentials") }

\* What bedrock_agent.invoke_agent does for one call:
\*   kind "raise"         the call raises exc
\*   kind "nocompletion"  it returns an envelope without 'completion'
\*   kind "stream"        the envelope's completion yields events, then ends
\*                        normally (exc = NoError) or raises exc while iterated
Reply(kind, events, exc) == [kind |-> kind, events |-> events, exc |-> exc]

Replies ==
    {Reply("raise", <<>>, e) : e \in Errors}
    \cup {Reply("nocompletion", <<>>, NoError)}
    \cup {Reply("stream", ev, NoError) : ev \in SeqsUpTo(Events, MaxEvents)}
    \cup {Reply("stream", ev, e) : ev \in SeqsUpTo(Events, 1), e \in Errors}

\* --------------------------------------------------- get_bedrock_response
\* "No completion in response"
NoCompletionText ==
    <<78, 111, 32, 99, 111, 109, 112, 108, 101, 116, 105, 111, 110, 32, 105, 110,
      32, 114, 101, 115, 112, 111, 110, 115, 101>>

\* st.error(f"...") reports, as the parts of the f-string
ChunkErrorReport == <<"Error processing chunk: ", "UnicodeDecodeError">>
AwsErrorReport(e) == <<"AWS Error: ", e.code, " - ", e.message>>
CommErrorReport(e) == <<"Error communicating with Bedrock: ", e.message>>

\* One pass of the loop body: acc is [full_response, errors].  Only an event
\* of shape {chunk: {bytes: <bytes>}} is decoded; a decode error is reported
\* and the loop continues with full_response untouched.
ProcessEvent(acc, event) ==
    IF event.shape = "bytes"
    THEN LET d == Utf8Decode(event.bytes)
         IN IF d.ok
            THEN [acc EXCEPT !.full_response = @ \o d.text]
            ELSE [acc EXCEPT !.errors = Append(@, ChunkErrorReport)]
    ELSE acc

\* a loop that breaks at the first event that fails to decode
RECURSIVE ConsumeStreamBreak(_, _)
ConsumeStreamBreak(acc, events) ==
    IF events = <<>> THEN acc
    ELSE LET next == ProcessEvent(acc, Head(events))
         IN IF next.errors # acc.errors THEN next
            ELSE ConsumeStreamBreak(next, Tail(events))

\* for event in response['completion']: ...
RECURSIVE ConsumeStream(_, _)
ConsumeStream(acc, events) ==
    IF events = <<>> THEN acc
    ELSE ConsumeStream(ProcessEvent(acc, Head(events)), Tail(events))

\* What one call returns: value is the return value, errors the st.error
\* reports in order, status "Failed" when an except clause of the outer try
\* handled the call and "Completed" otherwise.
Outcome(value, errors, status) == [value |-> value, errors |-> errors, status |-> status]

\* one catch-all clause: every exception reported the same way
HandleExceptionCatchAll(e, errors) ==
    Outcome(None, Append(errors, CommErrorReport(e)), "Failed")

\* except ClientError ... except Exception ...
HandleException(e, errors) ==
    IF e.cls = "ClientError"
    THEN Outcome(None, Append(errors, AwsErrorReport(e)), "Failed")
    ELSE Outcome(None, Append(errors, CommErrorReport(e)), "Failed")

\* an envelope without 'completion' treated as a failed call
NoCompletionAsFailure ==
    Outcome(None, << <<"Error communicating with Bedrock: ", "completion">> >>, "Failed")

\* return "No completion in response"
NoCompletion == Outcome(Str(NoCompletionText), <<>>, "Completed")

\* the accumulated text returned as it is
FinishStreamUntrimmed(acc) == Outcome(Str(acc.full_response), acc.errors, "Completed")

\* return full_response.strip()
FinishStream(acc) == Outcome(Str(Strip(acc.full_response)), acc.errors, "Completed")

GetBedrockResponse(reply) ==
    IF reply.kind = "raise" THEN HandleException(reply.exc, <<>>)
    ELSE IF reply.kind = "nocompletion" THEN NoCompletion
    ELSE LET acc == ConsumeStream([full_response |-> <<>>, errors |-> <<>>],
                                  reply.events)
         IN IF reply.exc # NoError
            THEN HandleException(reply.exc, acc.errors)
            ELSE FinishStream(acc)

\* ------------------------------------------------------------------ state
VARIABLES
    environ,        \* os.environ: the five settings, None when unset
    boto3_ok,       \* whether boto3 builds a client from these credentials
    state_keys,     \* keys present in st.session_state
    authenticated,  \* st.session_state.authenticated
    messages,       \* st.session_state.messages
    session_id,     \* the script global of the latest run, 0 when unassigned
    uuid_count,     \* uuid4 values drawn so far
    page,           \* what the latest run rendered before it ended
    trigger,        \* the widget event that started the latest run
    response,       \* the latest return value of get_bedrock_response
    errors,         \* st.error reports of the latest run
    sidebar,        \* st.sidebar.success / .error report of the latest run
    replayed,       \* turns rendered by the history loop of the latest run
    calls,          \* invoke_agent calls received by the agent, in order
    agent_reply,    \* SpecGateway: what invoke_agent does for the call
    gw_pc           \* SpecGateway: Idle, Completed or Failed

vars ==
    <<environ, boto3_ok, state_keys, authenticated, messages, session_id,
      uuid_count, page, trigger, response, errors, sidebar, replayed, calls,
      agent_reply, gw_pc>>

sessionVars ==
    <<environ, boto3_ok, state_keys, authenticated, messages, session_id,
      uuid_count, page, trigger, sidebar, replayed, calls>>

\* ------------------------------------------------------------ input texts
\* "sK"
Secret == <<115, 75>>
\* "sK", "sk", "sK ", " sK", "" (the password box starts empty)
SecretInputs == {<<115, 75>>, <<115, 107>>, <<115, 75, 32>>, <<32, 115, 75>>, <<>>}
\* "a", "test"
Prompts == {<<97>>, <<116, 101, 115, 116>>}
\* "test"
TestText == <<116, 101, 115, 116>>
\* "AKIA", "wJal", "agent", "alias"
SampleAccessKey == <<65, 75, 73, 65>>
SampleSecretKey == <<119, 74, 97, 108>>
SampleAgentId == <<97, 103, 101, 110, 116>>
SampleAgentAlias == <<97, 108, 105, 97, 115>>

\* "System update: The current date and time is "
SystemUpdatePrefix ==
    <<83, 121, 115, 116, 101, 109, 32, 117, 112, 100, 97, 116, 101, 58, 32, 84,
      104, 101, 32, 99, 117, 114, 114, 101, 110, 116, 32, 100, 97, 116, 101, 32,
      97, 110, 100, 32, 116, 105, 109, 101, 32, 105, 115, 32>>
\* datetime.now(pytz.utc).strftime(...) at one sample instant:
\* "2026-11-02 18:00:00 UTC"
CurrentDt ==
    <<50, 48, 50, 54, 45, 49, 49, 45, 48, 50, 32, 49, 56, 58, 48, 48, 58, 48, 48,
      32, 85, 84, 67>>
SystemUpdateText == SystemUpdatePrefix \o CurrentDt \o <<46>>

\* replies the agent gives during a session: a classified error, an
\* unclassified error, no completion, "a", an empty stream, and a stream that
\* breaks after its first chunk
SessionReplies ==
    {Reply("raise", <<>>, e) : e \in Errors}
    \cup { Reply("nocompletion", <<>>, NoError),
           Reply("stream", <<ChunkEvent(<<97>>)>>, NoError),
           Reply("stream", <<>>, NoError),
           Reply("stream", <<ChunkEvent(<<97>>)>>,
                 ClientError("ThrottlingException", "Rate exceeded")) }

\* widget events
NoTrigger == [t |-> "none", text |-> <<>>]
SubmitTrigger(text) == [t |-> "submit", text |-> text]
ChatTrigger(prompt) == [t |-> "chat", text |-> prompt]
CheckTrigger == [t |-> "check", text |-> <<>>]

Turn(role, content) == [role |-> role, content |-> content]

\* one invoke_agent request as the agent receives it; via is the call site,
\* ok whether the call (and, in get_bedrock_response, its stream) went through,
\* turns the length of st.session_state.messages when the call was issued
Call(sid, text, via, ok, turns) ==
    [agentId |-> environ.BEDROCK_AGENT_ID, agentAliasId |-> environ.BEDROCK_AGENT_ALIAS,
     sessionId |-> sid, inputText |-> text, via |-> via, ok |-> ok, turns |-> turns]

\* ---------------------------------------------------------------- script
load_credentials ==
    [aws_access_key |-> environ.ACCESS_KEY_ID,
     aws_secret_key |-> environ.SECRET_ACCESS_KEY,
     agent_id |-> environ.BEDROCK_AGENT_ID,
     agent_alias |-> environ.BEDROCK_AGENT_ALIAS,
     secret_key |-> environ.APP_SECRET_KEY]

\* truthiness of a dict: only the empty dict is falsy
DictTruthy(d) == DOMAIN d # {}

\* the client, or None after reporting the exception
initialize_bedrock_client(credentials) ==
    IF boto3_ok
    THEN [client |-> TRUE, errors |-> <<>>]
    ELSE [client |-> FALSE,
          errors |-> << <<"Failed to initialize Bedrock client: ", "exception">> >>]

\* a comparison that trims the entered text first
SecretMatchesTrimmed(user_secret, credentials) ==
    Str(Strip(user_secret)) = credentials.secret_key

\* user_secret == credentials['secret_key']
SecretMatches(user_secret, credentials) == Str(user_secret) = credentials.secret_key

\* 'datetime_sent' not in st.session_state
ShouldSendDatetime(keys) == "datetime_sent" \notin keys

\* a history list created afresh by every run
InitMessagesEveryRun(keys, msgs) == <<>>

\* st.session_state.messages as the run finds it, after lines 110-111
InitMessages(keys, msgs) == IF "messages" \in keys THEN msgs ELSE <<>>

\* the script global response when line 163 was not reached
Unset == [t |-> "unset", v |-> <<>>]

\* the flag set only when the system update went through
MarkDatetimeSentOnSuccess(keys, dt) ==
    IF dt.value # None THEN keys \cup {"datetime_sent"} ELSE keys

\* st.session_state.datetime_sent = True, whatever the call returned
MarkDatetimeSent(keys, dt) == keys \cup {"datetime_sent"}

\* a handler that appends the reply before the user turn
ChatTurnReplyFirst(msgs, prompt, main) ==
    IF Truthy(main.value)
    THEN Append(Append(msgs, Turn("assistant", main.value.v)), Turn("user", prompt))
    ELSE Append(msgs, Turn("user", prompt))

\* a handler that clears the history when the call returned nothing
ChatTurnClearsOnFailure(msgs, prompt, main) ==
    IF Truthy(main.value)
    THEN Append(Append(msgs, Turn("user", prompt)), Turn("assistant", main.value.v))
    ELSE <<>>

\* a handler that appends an assistant turn whatever the call returned
ChatTurnAlwaysReplies(msgs, prompt, main) ==
    Append(Append(msgs, Turn("user", prompt)), Turn("assistant", main.value.v))

\* the chat input handler: the user turn is appended before the call, the
\* assistant turn only for a truthy response
ChatTurn(msgs, prompt, main) ==
    LET withUser == Append(msgs, Turn("user", prompt))
    IN IF Truthy(main.value)
       THEN Append(withUser, Turn("assistant", main.value.v))
       ELSE withUser

\* an invocation that is issued again when it failed
ChatCallsRetry(cs, sid, prompt, main, turns) ==
    LET once == Append(cs, Call(sid, prompt, "chat", main.status = "Completed", turns))
    IN IF main.status = "Failed"
       THEN Append(once, Call(sid, prompt, "chat", FALSE, turns))
       ELSE once

\* line 163: the one invocation of a user turn, issued after line 159
ChatCalls(cs, sid, prompt, main, turns) ==
    Append(cs, Call(sid, prompt, "chat", main.status = "Completed", turns))

\* a connection check that tries a second time when the first call raised
CheckConnectionRetry(cs, sid, reply, turns) ==
    LET once == Append(cs, Call(sid, TestText, "check", reply.kind # "raise", turns))
    IN [calls |-> IF reply.kind = "raise"
                  THEN Append(once, Call(sid, TestText, "check", FALSE, turns))
                  ELSE once,
        sidebar |-> IF reply.kind = "raise"
                    THEN <<"AWS Connection Error: ", reply.exc.message>>
                    ELSE <<"AWS Connection Successful!">>]

\* lines 173-183: one invoke_agent call with 'test', its stream is not read
CheckAwsConnection(cs, sid, reply, turns) ==
    [calls |-> Append(cs, Call(sid, TestText, "check", reply.kind # "raise", turns)),
     sidebar |-> IF reply.kind = "raise"
                 THEN <<"AWS Connection Error: ", reply.exc.message>>
                 ELSE <<"AWS Connection Successful!">>]

\* Lines 94-183 of one run: keys and auth are st.session_state as lines 72-92
\* left it, r_dt and r_main what the agent does for the calls of this run.
ChatPage(trig, keys, r_dt, r_main) ==
    LET credentials == load_credentials
        bedrock_agent == initialize_bedrock_client(credentials)
    IN IF ~bedrock_agent.client
       THEN /\ page' = "client_error"
            /\ errors' = Append(bedrock_agent.errors,
                                <<"Failed to initialize Bedrock client">>)
            /\ state_keys' = keys
            /\ session_id' = 0
            /\ response' = Unset
            /\ sidebar' = <<>>
            /\ replayed' = <<>>
            /\ UNCHANGED <<messages, uuid_count, calls>>
       ELSE LET sid == uuid_count + 1
                send == ShouldSendDatetime(keys)
                dt == GetBedrockResponse(r_dt)
                calls1 ==
                    IF send
                    THEN Append(calls, Call(sid, SystemUpdateText, "datetime",
                                            dt.status = "Completed", 0))
                    ELSE calls
                errors1 == IF send THEN dt.errors ELSE <<>>
                keys1 == IF send THEN MarkDatetimeSent(keys, dt) ELSE keys
                msgs0 == InitMessages(keys1, messages)
                main == GetBedrockResponse(r_main)
            IN /\ page' = "chat"
               /\ uuid_count' = sid
               /\ session_id' = sid
               /\ state_keys' = keys1 \cup {"messages"}
               /\ replayed' = msgs0
               /\ IF trig.t = "chat"
                  THEN /\ messages' = ChatTurn(msgs0, trig.text, main)
                       /\ calls' = ChatCalls(calls1, sid, trig.text, main,
                                             Len(msgs0) + 1)
                       /\ response' = main.value
                       /\ errors' = errors1 \o main.errors
                       /\ sidebar' = <<>>
                  ELSE IF trig.t = "check"
                  THEN LET check == CheckAwsConnection(calls1, sid, r_main, Len(msgs0))
                       IN /\ messages' = msgs0
                          /\ calls' = check.calls
                          /\ response' = Unset
                          /\ errors' = errors1
                          /\ sidebar' = check.sidebar
                  ELSE /\ messages' = msgs0
                       /\ calls' = calls1
                       /\ response' = Unset
                       /\ errors' = errors1
                       /\ sidebar' = <<>>

\* a flag that every run sets back to False
InitAuthenticatedEveryRun(keys, flag) == FALSE

\* lines 78-79: st.session_state.authenticated as the run finds it
InitAuthenticated(keys, flag) == IF "authenticated" \in keys THEN flag ELSE FALSE

\* a gate that lets every run through to line 94
GateOpenAlways(flag) == TRUE

\* lines 82 and 92: the run goes past the gate only with the flag set
GateOpen(flag) == flag

\* One run of the script from line 72, started by the widget event trig.
Script(trig, r_dt, r_main) ==
    LET credentials == load_credentials
        keys == state_keys \cup {"authenticated"}
        flag == InitAuthenticated(state_keys, authenticated)
        auth == GateOpen(flag)
    IN /\ trigger' = trig
       /\ UNCHANGED <<environ, boto3_ok, agent_reply, gw_pc>>
       /\ IF ~DictTruthy(credentials)
          THEN /\ page' = "config_error"
               /\ errors' = << <<"Failed to load credentials. Please check your environment variables.">> >>
               /\ response' = Unset
               /\ sidebar' = <<>>
               /\ replayed' = <<>>
               /\ session_id' = 0
               /\ UNCHANGED <<state_keys, authenticated, messages, uuid_count, calls>>
          ELSE IF ~auth
          THEN IF trig.t = "submit" /\ SecretMatches(trig.text, credentials)
               THEN \* st.rerun(): the script starts over with no widget event
                    /\ authenticated' = TRUE
                    /\ ChatPage(NoTrigger, keys, r_dt, r_main)
               ELSE /\ authenticated' = FALSE
                    /\ page' = "auth"
                    /\ errors' = IF trig.t = "submit"
                                 THEN << <<"Incorrect secret key. Try again.">> >>
                                 ELSE <<>>
                    /\ state_keys' = keys
                    /\ response' = Unset
                    /\ sidebar' = <<>>
                    /\ replayed' = <<>>
                    /\ session_id' = 0
                    /\ UNCHANGED <<messages, uuid_count, calls>>
          ELSE /\ authenticated' = flag
               /\ ChatPage(trig, keys, r_dt, r_main)

\* ---------------------------------------------------------------- actions
\* the page is opened, or rerun without a widget event
Rerun ==
    /\ uuid_count < MaxRuns
    /\ \E r_dt \in SessionReplies : Script(NoTrigger, r_dt, r_dt)

\* Submit on the authentication page with the text of the password box
SubmitSecret ==
    /\ uuid_count < MaxRuns
    /\ page = "auth"
    /\ \E text \in SecretInputs, r_dt \in SessionReplies :
           Script(SubmitTrigger(text), r_dt, r_dt)

\* a message entered in st.chat_input
ChatInput ==
    /\ uuid_count < MaxRuns
    /\ page = "chat"
    /\ \E prompt \in Prompts, r_dt \in SessionReplies, r_main \in SessionReplies :
           Script(ChatTrigger(prompt), r_dt, r_main)

\* the sidebar button "Check AWS Connection"
CheckConnection ==
    /\ uuid_count < MaxRuns
    /\ page = "chat"
    /\ \E r_dt \in SessionReplies, r_main \in SessionReplies :
           Script(CheckTrigger, r_dt, r_main)

Environments ==
    [ACCESS_KEY_ID : {None, Str(SampleAccessKey)},
     SECRET_ACCESS_KEY : {None, Str(SampleSecretKey)},
     BEDROCK_AGENT_ID : {Str(SampleAgentId)},
     BEDROCK_AGENT_ALIAS : {Str(SampleAgentAlias)},
     APP_SECRET_KEY : {None, Str(Secret)}]

Init ==
    /\ environ \in Environments
    /\ boto3_ok \in BOOLEAN
    /\ state_keys = {}
    /\ authenticated = FALSE
    /\ messages = <<>>
    /\ session_id = 0
    /\ uuid_count = 0
    /\ page = "none"
    /\ trigger = NoTrigger
    /\ response = Unset
    /\ errors = <<>>
    /\ sidebar = <<>>
    /\ replayed = <<>>
    /\ calls = <<>>
    /\ agent_reply = Reply("nocompletion", <<>>, NoError)
    /\ gw_pc = "Idle"

Next == Rerun \/ SubmitSecret \/ ChatInput \/ CheckConnection

Spec == Init /\ [][Next]_vars

\* ------------------------------------------------------------ SpecGateway
\* get_bedrock_response applied to one reply of the agent
Invoke ==
    /\ gw_pc = "Idle"
    /\ LET out == GetBedrockResponse(agent_reply)
       IN /\ response' = out.value
          /\ errors' = out.errors
          /\ gw_pc' = out.status
    /\ UNCHANGED <<agent_reply, sessionVars>>

InitGateway ==
    /\ environ = [ACCESS_KEY_ID |-> Str(SampleAccessKey),
                  SECRET_ACCESS_KEY |-> Str(SampleSecretKey),
                  BEDROCK_AGENT_ID |-> Str(SampleAgentId),
                  BEDROCK_AGENT_ALIAS |-> Str(SampleAgentAlias),
                  APP_SECRET_KEY |-> Str(Secret)]
    /\ boto3_ok = TRUE
    /\ state_keys = {}
    /\ authenticated = FALSE
    /\ messages = <<>>
    /\ session_id = 0
    /\ uuid_count = 0
    /\ page = "none"
    /\ trigger = NoTrigger
    /\ response = Unset
    /\ errors = <<>>
    /\ sidebar = <<>>
    /\ replayed = <<>>
    /\ calls = <<>>
    /\ agent_reply \in Replies
    /\ gw_pc = "Idle"

NextGateway == Invoke

SpecGateway == InitGateway /\ [][NextGateway]_vars

\* ================================================================ claims
DatetimeCalls == {i \in DOMAIN calls : calls[i].via = "datetime"}
LastCall == calls[Len(calls)]

\* C1: the session identifier is generated once, and every agent invocation
\* of the session carries that same identifier as sessionId.
C1_OneSessionId ==
    /\ uuid_count <= 1
    /\ \A i, j \in DOMAIN calls : calls[i].sessionId = calls[j].sessionId

\* C2: a Submit on the closed gate sets the authenticated flag exactly when
\* the entered text is, code point for code point, the configured secret;
\* otherwise the flag stays false and the authentication page is shown again.
C2_AuthIffExactSecret ==
    [][ (trigger'.t = "submit" /\ ~authenticated) =>
            /\ authenticated' <=> ( /\ environ.APP_SECRET_KEY.t = "str"
                                    /\ trigger'.text = environ.APP_SECRET_KEY.v )
            /\ ~authenticated' => page' = "auth" ]_vars

C2_Witness ==
    /\ trigger.t = "submit"
    /\ trigger.text = Secret
    /\ authenticated

\* C3: the system-time message is sent on the first run that checks the guard
\* and on no later run, also when that first call failed.
C3_TimestampOneShot ==
    /\ Cardinality(DatetimeCalls) <= 1
    /\ (uuid_count >= 1) <=> (DatetimeCalls = {1})
    /\ ShouldSendDatetime(state_keys) <=> (uuid_count = 0)

C3_Witness ==
    /\ uuid_count >= 3
    /\ DatetimeCalls = {1}
    /\ ~calls[1].ok

\* C4: with the access keys missing from the environment no run gets past a
\* configuration error: no authentication page, no agent invocation.
C4_FailFast ==
    (environ.ACCESS_KEY_ID = None \/ environ.SECRET_ACCESS_KEY = None) =>
        /\ page \in {"none", "config_error"}
        /\ calls = <<>>

\* C5 as stated: a user turn whose invocation fails leaves the transcript as
\* it was before the turn was submitted.
C5_FailedTurnLeavesTranscript ==
    [][ (trigger'.t = "chat" /\ ~calls'[Len(calls')].ok) =>
            /\ response' = None
            /\ messages' = messages ]_vars

\* C5 amended: a user turn whose invocation fails yields no text and no
\* assistant turn; the transcript is the one before the turn plus the user
\* turn alone.
C5_FailedTurnAddsUserTurnOnly ==
    [][ (trigger'.t = "chat" /\ ~calls'[Len(calls')].ok) =>
            /\ response' = None
            /\ messages' = Append(messages, Turn("user", trigger'.text)) ]_vars

C5_Witness ==
    /\ trigger.t = "chat"
    /\ ~LastCall.ok
    /\ response = None
    /\ Len(messages) >= 3
    /\ messages[Len(messages)].role = "user"

\* ---- reference reading of a chunk's payload, by the UTF-8 encoding rules
EncodeCp(cp) ==
    IF cp < 128 THEN <<cp>>
    ELSE IF cp < 2048 THEN <<192 + (cp \div 64), 128 + (cp % 64)>>
    ELSE <<224 + (cp \div 4096), 128 + ((cp \div 64) % 64), 128 + (cp % 64)>>

RECURSIVE EncodeText(_)
EncodeText(t) == IF t = <<>> THEN <<>> ELSE EncodeCp(Head(t)) \o EncodeText(Tail(t))

\* the code points whose encoding is made of ByteAlphabet (which holds no
\* lead byte of a three- or four-byte form)
CodePoints ==
    {cp \in 0..2047 : \A i \in DOMAIN EncodeCp(cp) : EncodeCp(cp)[i] \in ByteAlphabet}

\* for each payload the texts that encode to it: none, or exactly one
Readings ==
    [b \in ByteStrings |-> {t \in SeqsUpTo(CodePoints, Len(b)) : EncodeText(t) = b}]

IsUtf8(b) == Readings[b] # {}
TextOf(b) == CHOOSE t \in Readings[b] : TRUE

Matches(e) == e.shape = "bytes"
Undecodable(e) == Matches(e) /\ ~IsUtf8(e.bytes)
Decodable(e) == Matches(e) /\ IsUtf8(e.bytes)

\* the texts of the decodable events of the shape {chunk: {bytes: ...}}, in order
RECURSIVE ExpectedText(_)
ExpectedText(events) ==
    IF events = <<>> THEN <<>>
    ELSE (IF Decodable(Head(events)) THEN TextOf(Head(events).bytes) ELSE <<>>)
         \o ExpectedText(Tail(events))

StreamEnded ==
    /\ gw_pc # "Idle"
    /\ agent_reply.kind = "stream"
    /\ agent_reply.exc = NoError

\* C6: for a stream that ends, the call completes and returns the trimmed
\* concatenation, in stream order, of the texts of the events of the shape
\* {chunk: {bytes: ...}}; an event of another shape adds no text and no report.
C6_StreamText ==
    StreamEnded =>
        /\ gw_pc = "Completed"
        /\ response = Str(Strip(ExpectedText(agent_reply.events)))
        /\ Len(errors) <= Cardinality({i \in DOMAIN agent_reply.events :
                                          Matches(agent_reply.events[i])})

C6_Witness ==
    /\ StreamEnded
    /\ \E i, j \in DOMAIN agent_reply.events :
           /\ i < j
           /\ ~Matches(agent_reply.events[i])
           /\ Decodable(agent_reply.events[j])
    /\ response.v # <<>>
    /\ response.v # ExpectedText(agent_reply.events)

\* C7: an event whose bytes are not UTF-8 is reported once and dropped; the
\* call still completes and returns the text of the stream without the
\* failing events.
C7_DecodeFailureIsolated ==
    (StreamEnded /\ \E i \in DOMAIN agent_reply.events : Undecodable(agent_reply.events[i])) =>
        /\ gw_pc = "Completed"
        /\ errors = [i \in 1..Cardinality({i \in DOMAIN agent_reply.events :
                                             Undecodable(agent_reply.events[i])})
                        |-> ChunkErrorReport]
        /\ response = Str(Strip(ExpectedText(
               SelectSeq(agent_reply.events, LAMBDA e : ~Undecodable(e)))))

C7_Witness ==
    /\ StreamEnded
    /\ Len(agent_reply.events) >= 2
    /\ Undecodable(agent_reply.events[1])
    /\ Decodable(agent_reply.events[2])
    /\ response.t = "str"
    /\ response.v # <<>>
    /\ errors = <<ChunkErrorReport>>

\* C8: an envelope without 'completion' makes the call return the text
\* "No completion in response" as a normal result, with nothing reported.
C8_NoCompletionSentinel ==
    (gw_pc # "Idle" /\ agent_reply.kind = "nocompletion") =>
        /\ gw_pc = "Completed"
        /\ response = Str(NoCompletionText)
        /\ errors = <<>>

C8_Witness ==
    /\ agent_reply.kind = "nocompletion"
    /\ gw_pc = "Completed"
    /\ response.t = "str"
    /\ Len(response.v) = 25

IsPrefix(s, t) == Len(s) <= Len(t) /\ SubSeq(t, 1, Len(s)) = s

\* C9: every step leaves the earlier transcript as a prefix of the later one,
\* and the history loop of a run renders exactly the turns appended before it,
\* in their order.
C9_AppendOnly ==
    [][ /\ IsPrefix(messages, messages')
        /\ page' = "chat" => replayed' = messages ]_vars

C9_Witness ==
    /\ Len(messages) >= 3
    /\ Len(replayed) >= 2
    /\ IsPrefix(replayed, messages)

TurnFailed == trigger.t = "chat" /\ ~LastCall.ok

\* C10: a failed invocation leaves the session authenticated and on the chat
\* page with its transcript kept, another message can be submitted, and every
\* submitted message issues a new invocation carrying it.
C10_SessionSurvivesFailure ==
    /\ [][ (trigger'.t = "chat" /\ ~calls'[Len(calls')].ok) =>
               /\ authenticated'
               /\ page' = "chat"
               /\ IsPrefix(messages, messages') ]_vars
    /\ [][ trigger'.t = "chat" =>
               /\ Len(calls') = Len(calls) + 1
               /\ calls'[Len(calls')].inputText = trigger'.text
               /\ calls'[Len(calls')].via = "chat" ]_vars
    /\ []((TurnFailed /\ uuid_count < MaxRuns) => ENABLED ChatInput)

C10_Witness ==
    /\ authenticated
    /\ \E i, j \in DOMAIN calls :
           /\ i < j
           /\ calls[i].via = "chat" /\ ~calls[i].ok
           /\ calls[j].via = "chat"
    /\ Len(messages) >= 2

\* C11: a classified error is reported as "AWS Error: <code> - <message>",
\* any other exception under the heading "Error communicating with Bedrock",
\* and in both cases the call returns None.
C11_ClassifiedErrorReport ==
    gw_pc = "Failed" =>
        LET e == agent_reply.exc
            report == errors[Len(errors)]
        IN /\ response = None
           /\ errors # <<>>
           /\ e.cls = "ClientError" =>
                  /\ report = <<"AWS Error: ", e.code, " - ", e.message>>
                  /\ e.code # ""
           /\ e.cls # "ClientError" =>
                  /\ report[1] = "Error communicating with Bedrock: "
                  /\ report[Len(report)] = e.message

C11_Witness ==
    /\ gw_pc = "Failed"
    /\ agent_reply.exc.code = "ThrottlingException"
    /\ errors = << <<"AWS Error: ", "ThrottlingException", " - ", "Rate exceeded">> >>
    /\ response = None

\* C12: a click on "Check AWS Connection" issues exactly one invocation, with
\* the input text "test", reports success when the call returns and an error
\* when it raises, and leaves the transcript, the authenticated flag and the
\* keys of the session state (datetime_sent among them) as they were.
C12_CheckConnectionFrame ==
    [][ trigger'.t = "check" =>
            /\ Len(calls') = Len(calls) + 1
            /\ SubSeq(calls', 1, Len(calls)) = calls
            /\ calls'[Len(calls')].inputText = TestText
            /\ calls'[Len(calls')].via = "check"
            /\ sidebar' = IF calls'[Len(calls')].ok
                          THEN <<"AWS Connection Successful!">>
                          ELSE <<"AWS Connection Error: ", sidebar'[Len(sidebar')]>>
            /\ messages' = messages
            /\ authenticated' = authenticated
            /\ state_keys' = state_keys ]_vars

C12_Witness ==
    /\ trigger.t = "check"
    /\ LastCall.via = "check"
    /\ ~LastCall.ok
    /\ sidebar[1] = "AWS Connection Error: "
    /\ messages # <<>>
    /\ authenticated
    /\ "datetime_sent" \in state_keys

\* C13: a user turn whose invocation returns non-empty text extends the
\* transcript by the user turn and then an assistant turn holding exactly the
\* returned text, and the invocation was issued with the user turn already
\* appended.
C13_TurnAppendsPair ==
    [][ (trigger'.t = "chat" /\ Truthy(response')) =>
            /\ messages' = messages \o << Turn("user", trigger'.text),
                                          Turn("assistant", response'.v) >>
            /\ calls'[Len(calls')].via = "chat"
            /\ calls'[Len(calls')].turns = Len(messages) + 1
            /\ messages'[calls'[Len(calls')].turns] = Turn("user", trigger'.text) ]_vars

C13_Witness ==
    /\ trigger.t = "chat"
    /\ Truthy(response)
    /\ Len(messages) >= 3
    /\ messages[Len(messages)] = Turn("assistant", response.v)
    /\ messages[Len(messages) - 1] = Turn("user", trigger.text)

ChatCallTexts ==
    LET cs == SelectSeq(calls, LAMBDA c : c.via = "chat")
    IN [i \in 1..Len(cs) |-> cs[i].inputText]
UserTurnTexts ==
    LET us == SelectSeq(messages, LAMBDA m : m.role = "user")
    IN [i \in 1..Len(us) |-> us[i].content]

\* C14: the invocations issued for user turns are, one for one and in order,
\* the submitted messages: none is missing and none is repeated, also after a
\* failure.
C14_OneInvocationPerMessage == ChatCallTexts = UserTurnTexts

C14_Witness ==
    /\ Len(ChatCallTexts) >= 2
    /\ ChatCallTexts[1] = ChatCallTexts[2]
    /\ \E i \in DOMAIN calls : calls[i].via = "chat" /\ ~calls[i].ok

\* C15: as long as the session is not authenticated no run gets past the
\* gate: no invocation has been issued, no client built, no uuid drawn, and
\* the session state holds neither a transcript nor the datetime flag.
C15_NothingBeforeAuthentication ==
    ~authenticated =>
        /\ calls = <<>>
        /\ page \in {"none", "auth"}
        /\ uuid_count = 0
        /\ session_id = 0
        /\ messages = <<>>
        /\ state_keys \subseteq {"authenticated"}

C15_Witness ==
    /\ ~authenticated
    /\ trigger.t = "submit"
    /\ page = "auth"
    /\ errors # <<>>
    /\ calls = <<>>

\* C16: the authenticated flag starts false and no step sets it back from
\* true to false.
C16_AuthenticatedMonotonic ==
    /\ ~authenticated
    /\ [][authenticated => authenticated']_vars

C16_Witness ==
    /\ authenticated
    /\ uuid_count >= 3
    /\ \E i, j \in DOMAIN calls :
           /\ calls[i].via = "chat" /\ ~calls[i].ok
           /\ calls[j].via = "check"

Count(role) == Cardinality({i \in DOMAIN messages : messages[i].role = role})

\* C17: the transcript holds only user and assistant turns; an assistant turn
\* has non-empty content and follows a user turn directly, so assistant turns
\* are never adjacent nor more numerous than user turns.
C17_TranscriptShape ==
    /\ \A i \in DOMAIN messages :
           /\ messages[i].role \in {"user", "assistant"}
           /\ messages[i].role = "assistant" =>
                  /\ messages[i].content # <<>>
                  /\ i > 1
                  /\ messages[i - 1].role = "user"
    /\ Count("assistant") <= Count("user")

C17_Witness ==
    /\ Len(messages) >= 3
    /\ Count("assistant") >= 1
    /\ Count("user") > Count("assistant")

====
